---------------------------- MODULE Spec2Model ----------------------------
(***************************************************************************)
(* Model of setup/setup_one_sequence_visma2.py: the pose algebra, the      *)
(* triplet selector construct_triplet and the main loop of                 *)
(* process_one_sequence (stream synchronisation, sliding window, artifact  *)
(* writes).                                                                *)
(*                                                                         *)
(* Units.  Timestamps are integers counting ticks of 1/30000 s, so that    *)
(* dt = 0.025 s is 750 ticks and one unit of the '{:.4f}' basename         *)
(* (0.0001 s) is 3 ticks; a timestamp is never half way between two        *)
(* basenames.  Translations are integers counting 0.005 m, so that the     *)
(* default spatial_interval 0.01 is 2.                                     *)
(***************************************************************************)
EXTENDS Integers, Sequences, FiniteSets, TLC

VARIABLES
  temporal_interval,  \* opt.temporal_interval
  spatial_interval,   \* opt.spatial_interval
  dataset,            \* dataset.packets: sequence of [ts, gwc, wg]
  color_messages,     \* timestamps of the items of the color topic, in bag order
  depth_messages,     \* timestamps of the items of the depth topic, in bag order
  color_pos,          \* number of items the color generator has yielded
  depth_pos,          \* number of items the depth generator has yielded
  i,                  \* number of the packet being processed (0 before the loop)
  rgb_msg,            \* index in color_messages of the current color item (0: none)
  depth_msg,          \* index in depth_messages of the current depth item (0: none)
  circbuf,            \* the deque(maxlen = circbuf_maxlen) of samples
  count,              \* the counter of accepted samples
  triplet,            \* the tuple returned by construct_triplet, <<>> when none
  K_file,             \* what np.save has written to <output_dir>/K
  files,              \* the artifact writes so far, in order: [path, data]
  pc,                 \* position in process_one_sequence
  pushed,             \* history: every sample appended to circbuf, in order
  log,                \* history: [i, what] for every step taken on packet i
  calc                \* the poses given to the pose algebra and what it returned

vars == <<temporal_interval, spatial_interval, dataset, color_messages,
          depth_messages, color_pos, depth_pos, i, rgb_msg, depth_msg, circbuf,
          count, triplet, K_file, files, pc, pushed, log, calc>>

-----------------------------------------------------------------------------
(* Bounds of the model and the constant of the program *)

dt == 750

MaxSyncPkts == 2

MaxSyncImgs == 3

MaxSlide == 2

ScenarioLen == 10

-----------------------------------------------------------------------------
(* Pose algebra *)

Rot(g) == [r \in 1..3 |-> [c \in 1..3 |-> g[r][c]]]

Trans(g) == [r \in 1..3 |-> g[r][4]]

Transpose(R) == [r \in 1..3 |-> [c \in 1..3 |-> R[c][r]]]

MatMul(A, B) ==
  [r \in 1..3 |-> [c \in 1..3 |->
      A[r][1] * B[1][c] + A[r][2] * B[2][c] + A[r][3] * B[3][c]]]

MatVec(A, v) == [r \in 1..3 |-> A[r][1] * v[1] + A[r][2] * v[2] + A[r][3] * v[3]]

\* np.concatenate((R, t), axis=1), then the row [0, 0, 0, 1] when rows = 4
Assemble(R, t, rows) ==
  LET g == [r \in 1..3 |-> <<R[r][1], R[r][2], R[r][3], t[r]>>]
  IN  IF rows = 4 THEN Append(g, <<0, 0, 0, 1>>) ELSE g

\* the translation is not rotated: R1.dot(t2) is taken to be t2
compose_pose_TranslationNotRotated(g1, g2) ==
  Assemble(MatMul(Rot(g1), Rot(g2)),
           [r \in 1..3 |-> Trans(g2)[r] + Trans(g1)[r]],
           Len(g1))

\* the shape is taken from g2
compose_pose_ShapeOfSecond(g1, g2) ==
  Assemble(MatMul(Rot(g1), Rot(g2)),
           [r \in 1..3 |-> MatVec(Rot(g1), Trans(g2))[r] + Trans(g1)[r]],
           Len(g2))

compose_pose(g1, g2) ==
  Assemble(MatMul(Rot(g1), Rot(g2)),
           [r \in 1..3 |-> MatVec(Rot(g1), Trans(g2))[r] + Trans(g1)[r]],
           Len(g1))

\* the translation is not negated
inverse_pose_NotNegated(g1) ==
  Assemble(Transpose(Rot(g1)), MatVec(Transpose(Rot(g1)), Trans(g1)), Len(g1))

\* the rotation is not transposed
inverse_pose_NotTransposed(g1) ==
  Assemble(Rot(g1), [r \in 1..3 |-> 0 - MatVec(Rot(g1), Trans(g1))[r]], Len(g1))

inverse_pose(g1) ==
  LET Rt == Transpose(Rot(g1))
  IN  Assemble(Rt, [r \in 1..3 |-> 0 - MatVec(Rt, Trans(g1))[r]], Len(g1))

list2pose(v) == [r \in 1..3 |-> [c \in 1..4 |-> v[4 * (r - 1) + c]]]

\* cv2.Rodrigues of the tilt vector extended by 0: kept as the vector it is
\* computed from
list2R(wg) == [rodrigues |-> <<wg[1], wg[2], 0>>]

\* np.linalg.norm(v) < s, on integers: the norm is the root of SumSq(v)
SumSq(v) == v[1] * v[1] + v[2] * v[2] + v[3] * v[3]

\* <= for <
NormLess_OrEqual(v, s) == s >= 0 /\ SumSq(v) <= s * s

NormLess(v, s) == s > 0 /\ SumSq(v) < s * s

-----------------------------------------------------------------------------
(* construct_triplet *)

\* the three samples taken from the newest to the oldest
Picked_NewestFirst(buf, ti) == [k \in 1..3 |-> buf[ti * (3 - k) + 1]]

\* the three samples circbuf[temporal_interval * i], i in range(3)
Picked(buf, ti) == [k \in 1..3 |-> buf[ti * (k - 1) + 1]]

\* only the previous frame is tested
NotEnoughParallax_PreviousOnly(gwc_concat, si) ==
  NormLess(Trans(compose_pose(inverse_pose(gwc_concat[2]), gwc_concat[1])), si)

\* line 86-88
NotEnoughParallax(gwc_concat, si) ==
  LET g10 == compose_pose(inverse_pose(gwc_concat[2]), gwc_concat[1])
      g12 == compose_pose(inverse_pose(gwc_concat[2]), gwc_concat[3])
  IN  NormLess(Trans(g10), si) \/ NormLess(Trans(g12), si)

\* the paths of the newest sample, the one named after now, are returned
construct_triplet_PathsOfNewest(buf, ti, si) ==
  LET gwc_concat == [k \in 1..3 |-> Picked(buf, ti)[k].gwc]
  IN  IF NotEnoughParallax(gwc_concat, si)
      THEN [ok |-> FALSE]
      ELSE [ok |-> TRUE,
            rgb_concat |-> Picked(buf, ti)[1].rgb \o Picked(buf, ti)[2].rgb
                             \o Picked(buf, ti)[3].rgb,
            gwc_concat |-> gwc_concat,
            Rg_concat  |-> [k \in 1..3 |-> Picked(buf, ti)[k].Rg],
            dense_ref  |-> buf[ti + 1].depth,
            ref_paths  |-> buf[2 * ti + 1].output_paths]

\* [ok |-> FALSE]: ValueError('Not enough parallel!!!') was raised
construct_triplet(buf, ti, si) ==
  LET gwc_concat == [k \in 1..3 |-> Picked(buf, ti)[k].gwc]
      Rg_concat  == [k \in 1..3 |-> Picked(buf, ti)[k].Rg]
      rgb_concat == Picked(buf, ti)[1].rgb \o Picked(buf, ti)[2].rgb
                      \o Picked(buf, ti)[3].rgb
  IN  IF NotEnoughParallax(gwc_concat, si)
      THEN [ok |-> FALSE]
      ELSE [ok |-> TRUE,
            rgb_concat |-> rgb_concat,
            gwc_concat |-> gwc_concat,
            Rg_concat  |-> Rg_concat,
            dense_ref  |-> buf[ti + 1].depth,
            ref_paths  |-> buf[ti + 1].output_paths]


-----------------------------------------------------------------------------
(* The inputs: the dataset of the pose log and the two topics of the bag *)

RECURSIVE TimeSeqs(_, _, _)
\* the time-ordered sequences of n timestamps: a first one, then gaps
TimeSeqs(starts, gaps, n) ==
  IF n = 0 THEN {<<>>}
  ELSE IF n = 1 THEN {<<s>> : s \in starts}
  ELSE {Append(q, q[n - 1] + g) : q \in TimeSeqs(starts, gaps, n - 1), g \in gaps}

TimeSeqsUpTo(starts, gaps, max) == UNION {TimeSeqs(starts, gaps, n) : n \in 0..max}

Starts == {0, dt, dt + 1}

PktGaps == {1, dt, 2 * dt}

ImgGaps == {dt, 3 * dt}

\* a camera at the origin, and one turned a quarter about z and moved by 2
BodyA == [gwc |-> <<1, 0, 0, 0,   0, 1, 0, 0,   0, 0, 1, 0>>, wg |-> <<0, 0>>]

BodyB == [gwc |-> <<0, -1, 0, 2,   1, 0, 0, 0,   0, 0, 1, 0>>, wg |-> <<1, 0>>]

Bodies == {BodyA, BodyB}

Packet(ts, body) == [ts |-> ts, gwc |-> body.gwc, wg |-> body.wg]

TemporalIntervals == {1, 2}

SpatialIntervals == {0, 2, 3}

\* the camera-model record of the dataset (focal lengths and principal point)
cam == [fx |-> 600, fy |-> 601, cx |-> 320, cy |-> 240]

K == << <<cam.fx, 0, cam.cx>>, <<0, cam.fy, cam.cy>>, <<0, 0, 1>> >>

DropLast(s) == IF s = <<>> THEN s ELSE SubSeq(s, 1, Len(s) - 1)

\* streams whose timestamps meet the tolerance window of the packets in
\* every way: before it, on its two ends, inside, after it, or not at all
InputsSync ==
  {[ti |-> 1, si |-> 2,
    dataset |-> [k \in 1..Len(ts) |->
                   Packet(ts[k], IF k % 2 = 1 THEN BodyA ELSE BodyB)],
    color |-> c, depth |-> d] :
     ts \in TimeSeqsUpTo(Starts, PktGaps, MaxSyncPkts),
     c \in TimeSeqsUpTo(Starts, ImgGaps, MaxSyncImgs),
     d \in {"same", "short", "late"}}

Max(S) == CHOOSE x \in S : \A y \in S : y <= x

\* the lengths of a dataset that fills the window and slides it MaxSlide times
Lengths(ti) == 1..(2 * ti + 1 + MaxSlide)

\* one image per packet at the packet's timestamp, every choice of poses
InputsPoses ==
  UNION {
    IF n \notin Lengths(ti) THEN {} ELSE
    {[ti |-> ti, si |-> si,
      dataset |-> [k \in 1..n |-> Packet(dt * (k - 1), b[k])],
      color |-> [k \in 1..n |-> dt * (k - 1)], depth |-> "same"] :
       b \in [1..n -> Bodies], si \in SpatialIntervals}
    : ti \in TemporalIntervals, n \in 1..(2 * Max(TemporalIntervals) + 1 + MaxSlide)}

\* a camera moving by 2 per packet
Moving(k) == [gwc |-> <<1, 0, 0, 2 * k,   0, 1, 0, 0,   0, 0, 1, 0>>, wg |-> <<0, k>>]

\* evenly spaced packets and images, disturbed once the window is full:
\* "gap": no image was taken for packet 2 * ti + 2; "jump": one image more
\* than packets was taken before packet 2 * ti + 2; the bag ends one image
\* early, with the last packet, or one image late
InputsStreams ==
  UNION {
    IF n \notin Lengths(ti) THEN {} ELSE
    {[ti |-> ti, si |-> si,
      dataset |-> [k \in 1..n |->
                     Packet(dt * (k - 1)
                              + (IF kind = "gap" /\ k > 2 * ti + 2 THEN 2 * dt ELSE 0)
                              + (IF kind = "jump" /\ k >= 2 * ti + 2 THEN 2 * dt ELSE 0),
                            Moving(k))],
      color |-> [k \in 1..m |->
                   dt * (k - 1)
                     + (IF kind = "gap" /\ k >= 2 * ti + 2 THEN 2 * dt ELSE 0)],
      depth |-> "same"] :
       m \in {n - 1, n, n + 1},
       kind \in {"plain", "gap", "jump"}, si \in SpatialIntervals}
    : ti \in TemporalIntervals, n \in 1..(2 * Max(TemporalIntervals) + 1 + MaxSlide)}

\* evenly spaced packets, the camera moving by 0.1 m (20 units) per packet
InputsScenario ==
  {[ti |-> 2, si |-> 2,
    dataset |-> [k \in 1..ScenarioLen |->
                   Packet(dt * (k - 1),
                          [gwc |-> <<1, 0, 0, 20 * k,  0, 1, 0, 0,  0, 0, 1, 0>>,
                           wg |-> <<0, k>>])],
    color |-> [k \in 1..ScenarioLen |-> dt * (k - 1)], depth |-> "same"]}

Inputs == InputsSync \cup InputsPoses \cup InputsStreams \cup InputsScenario

DepthStream(color, d) ==
  CASE d = "same"  -> color
    [] d = "short" -> DropLast(color)
    [] d = "late"  -> [k \in 1..Len(color) |-> color[k] + 4 * dt]

-----------------------------------------------------------------------------
(* process_one_sequence *)

circbuf_maxlen == temporal_interval * 2 + 1

now == dataset[i].ts

\* '{:.4f}'.format(now): the nearest multiple of 0.0001 s = 3 ticks
Format4(t) == (t + 1) \div 3

\* bridge.imgmsg_to_cv2: the image of a message, one column wide
imgmsg_to_cv2(topic, k) == << [topic |-> topic, seq |-> k] >>

\* depth / 1000.0
MillimetersToMeters(img) == [image |-> img, per |-> 1000]

OutputPaths(basename) ==
  [rgb   |-> <<"rgb", basename, "jpg">>,
   pose  |-> <<"pose", basename, "pkl">>,
   depth |-> <<"depth", basename, "npy">>]

Sample(packet, r, d) ==
  [rgb   |-> imgmsg_to_cv2("color", r),
   gwc   |-> list2pose(packet.gwc),
   Rg    |-> list2R(packet.wg),
   depth |-> MillimetersToMeters(imgmsg_to_cv2("depth", d)),
   output_paths |-> OutputPaths(Format4(packet.ts))]

\* a full deque that refuses the new sample's place to the oldest one
DequeAppend_KeepOldest(buf, x, maxlen) ==
  IF Len(buf) = maxlen THEN Append(SubSeq(buf, 1, maxlen - 1), x) ELSE Append(buf, x)

\* a full deque that starts over with the new sample
DequeAppend_StartOver(buf, x, maxlen) ==
  IF Len(buf) = maxlen THEN <<x>> ELSE Append(buf, x)

\* deque.append with maxlen: the oldest sample leaves a full deque
DequeAppend(buf, x, maxlen) ==
  IF Len(buf) = maxlen THEN Append(Tail(buf), x) ELSE Append(buf, x)

\* the tolerance counted twice
TooEarly_TwiceTolerance(t, ref) == t < ref - 2 * dt

\* line 155
TooEarly(t, ref) == t < ref - dt

\* the tolerance counted twice
TooLate_TwiceTolerance(t, ref) == t > ref + 2 * dt

\* line 162
TooLate(t, ref) == t > ref + dt

Note(what) == log' = Append(log, [i |-> i, what |-> what])

Init ==
  /\ \E in \in Inputs :
       /\ temporal_interval = in.ti
       /\ spatial_interval = in.si
       /\ dataset = in.dataset
       /\ color_messages = in.color
       /\ depth_messages = DepthStream(in.color, in.depth)
  /\ color_pos = 0
  /\ depth_pos = 0
  /\ i = 0
  /\ rgb_msg = 0
  /\ depth_msg = 0
  /\ circbuf = <<>>
  /\ count = 0
  /\ triplet = <<>>
  /\ K_file = <<>>
  /\ files = <<>>
  /\ pc = "setup"
  /\ pushed = <<>>
  /\ log = <<>>
  /\ calc = [at |-> "off"]

\* lines 133-145 with np.save left out: the run starts without saving K
SaveK_NotSaved ==
  /\ pc = "setup"
  /\ pc' = "for"
  /\ log' = Append(log, [i |-> 0, what |-> "saving camera intrinsics"])
  /\ UNCHANGED <<calc, temporal_interval, spatial_interval, dataset, color_messages,
                 depth_messages, color_pos, depth_pos, i, rgb_msg, depth_msg,
                 circbuf, count, triplet, K_file, files, pushed>>

\* lines 133-145: the intrinsics are saved, the deque is created
SaveK ==
  /\ pc = "setup"
  /\ K_file' = Append(K_file, K)
  /\ pc' = "for"
  /\ log' = Append(log, [i |-> 0, what |-> "saving camera intrinsics"])
  /\ UNCHANGED <<calc, temporal_interval, spatial_interval, dataset, color_messages,
                 depth_messages, color_pos, depth_pos, i, rgb_msg, depth_msg,
                 circbuf, count, triplet, files, pushed>>

\* line 149: the next packet
ForNext ==
  /\ pc = "for"
  /\ i < Len(dataset)
  /\ i' = i + 1
  /\ pc' = "fetch"
  /\ UNCHANGED <<calc, temporal_interval, spatial_interval, dataset, color_messages,
                 depth_messages, color_pos, depth_pos, rgb_msg, depth_msg,
                 circbuf, count, triplet, K_file, files, pushed, log>>

\* line 149: no packet is left, the function returns
ForEnd ==
  /\ pc = "for"
  /\ i = Len(dataset)
  /\ pc' = "done"
  /\ UNCHANGED <<calc, temporal_interval, spatial_interval, dataset, color_messages,
                 depth_messages, color_pos, depth_pos, i, rgb_msg, depth_msg,
                 circbuf, count, triplet, K_file, files, pushed, log>>

\* the end of the depth topic goes unnoticed: the last depth item is kept
NextMessages_DepthEndUnnoticed ==
  IF color_pos = Len(color_messages)
  THEN /\ pc' = "aborted"
       /\ Note("StopIteration color")
       /\ UNCHANGED <<color_pos, depth_pos, rgb_msg, depth_msg>>
  ELSE /\ color_pos' = color_pos + 1
       /\ rgb_msg' = color_pos + 1
       /\ depth_pos' = IF depth_pos = Len(depth_messages) THEN depth_pos ELSE depth_pos + 1
       /\ depth_msg' = depth_pos'
       /\ pc' = "while"
       /\ Note("next")

\* rgb_msg = color_messages.next(); depth_msg = depth_messages.next()
\* StopIteration of either generator leaves the function
NextMessages ==
  IF color_pos = Len(color_messages)
  THEN /\ pc' = "aborted"
       /\ Note("StopIteration color")
       /\ UNCHANGED <<color_pos, depth_pos, rgb_msg, depth_msg>>
  ELSE /\ color_pos' = color_pos + 1
       /\ rgb_msg' = color_pos + 1
       /\ IF depth_pos = Len(depth_messages)
          THEN /\ pc' = "aborted"
               /\ Note("StopIteration depth")
               /\ UNCHANGED <<depth_pos, depth_msg>>
          ELSE /\ depth_pos' = depth_pos + 1
               /\ depth_msg' = depth_pos + 1
               /\ pc' = "while"
               /\ Note("next")

\* lines 152-153
Fetch ==
  /\ pc = "fetch"
  /\ NextMessages
  /\ UNCHANGED <<calc, temporal_interval, spatial_interval, dataset, color_messages,
                 depth_messages, i, circbuf, count, triplet, K_file, files,
                 pushed>>

\* lines 155-157 with the depth generator left behind: only the color
\* generator is advanced in the loop
CatchUp_ColorOnly ==
  /\ pc = "while"
  /\ TooEarly(color_messages[rgb_msg], now)
  /\ IF color_pos = Len(color_messages)
     THEN /\ pc' = "aborted"
          /\ Note("StopIteration color")
          /\ UNCHANGED <<color_pos, rgb_msg>>
     ELSE /\ color_pos' = color_pos + 1
          /\ rgb_msg' = color_pos + 1
          /\ pc' = "while"
          /\ Note("next")
  /\ UNCHANGED <<calc, temporal_interval, spatial_interval, dataset, color_messages,
                 depth_messages, depth_pos, depth_msg, i, circbuf, count, triplet,
                 K_file, files, pushed>>

\* lines 155-157
CatchUp ==
  /\ pc = "while"
  /\ TooEarly(color_messages[rgb_msg], now)
  /\ NextMessages
  /\ UNCHANGED <<calc, temporal_interval, spatial_interval, dataset, color_messages,
                 depth_messages, i, circbuf, count, triplet, K_file, files,
                 pushed>>

\* lines 162-164
BadSample ==
  /\ pc = "while"
  /\ ~TooEarly(color_messages[rgb_msg], now)
  /\ TooLate(color_messages[rgb_msg], now)
  /\ Note("bad sample, skipping ...")
  /\ pc' = "for"
  /\ UNCHANGED <<calc, temporal_interval, spatial_interval, dataset, color_messages,
                 depth_messages, color_pos, depth_pos, i, rgb_msg, depth_msg,
                 circbuf, count, triplet, K_file, files, pushed>>

\* line 184
IsFull(buf) == Len(buf) = circbuf_maxlen

\* lines 166-184
Push ==
  /\ pc = "while"
  /\ ~TooEarly(color_messages[rgb_msg], now)
  /\ ~TooLate(color_messages[rgb_msg], now)
  /\ count' = count + 1
  /\ LET s == Sample(dataset[i], rgb_msg, depth_msg)
     IN  /\ circbuf' = DequeAppend(circbuf, s, circbuf_maxlen)
         /\ pushed' = Append(pushed, s)
  /\ Note("append")
  /\ pc' = IF IsFull(circbuf') THEN "triplet" ELSE "for"
  /\ UNCHANGED <<calc, temporal_interval, spatial_interval, dataset, color_messages,
                 depth_messages, color_pos, depth_pos, i, rgb_msg, depth_msg,
                 triplet, K_file, files>>

\* lines 186-191
TripletOk ==
  /\ pc = "triplet"
  /\ construct_triplet(circbuf, temporal_interval, spatial_interval).ok
  /\ triplet' = construct_triplet(circbuf, temporal_interval, spatial_interval)
  /\ Note("saving ...")
  /\ pc' = "imwrite"
  /\ UNCHANGED <<calc, temporal_interval, spatial_interval, dataset, color_messages,
                 depth_messages, color_pos, depth_pos, i, rgb_msg, depth_msg,
                 circbuf, count, K_file, files, pushed>>

\* lines 220-221, the window being emptied when the attempt is given up
TripletFail_ClearsWindow ==
  /\ pc = "triplet"
  /\ ~construct_triplet(circbuf, temporal_interval, spatial_interval).ok
  /\ Note("Not enough parallel; skip")
  /\ circbuf' = <<>>
  /\ pc' = "for"
  /\ UNCHANGED <<calc, temporal_interval, spatial_interval, dataset, color_messages,
                 depth_messages, color_pos, depth_pos, i, rgb_msg, depth_msg,
                 count, triplet, K_file, files, pushed>>

\* lines 186-188 and 220-221
TripletFail ==
  /\ pc = "triplet"
  /\ ~construct_triplet(circbuf, temporal_interval, spatial_interval).ok
  /\ Note("Not enough parallel; skip")
  /\ pc' = "for"
  /\ UNCHANGED <<calc, temporal_interval, spatial_interval, dataset, color_messages,
                 depth_messages, color_pos, depth_pos, i, rgb_msg, depth_msg,
                 circbuf, count, triplet, K_file, files, pushed>>

Write(path, data, next) ==
  /\ files' = Append(files, [path |-> path, data |-> data, i |-> i])
  /\ Note(path[1])
  /\ pc' = next
  /\ UNCHANGED <<calc, temporal_interval, spatial_interval, dataset, color_messages,
                 depth_messages, color_pos, depth_pos, i, rgb_msg, depth_msg,
                 circbuf, count, triplet, K_file, pushed>>

\* line 193
WriteRgb ==
  /\ pc = "imwrite"
  /\ Write(triplet.ref_paths.rgb, [rgb |-> triplet.rgb_concat], "dump")

\* lines 195-196
WritePose ==
  /\ pc = "dump"
  /\ Write(triplet.ref_paths.pose,
           [gwc |-> triplet.gwc_concat, Rg |-> triplet.Rg_concat], "save")

\* line 198
WriteDepth ==
  /\ pc = "save"
  /\ Write(triplet.ref_paths.depth, [float32 |-> triplet.dense_ref], "for")

Next ==
  \/ SaveK
  \/ ForNext
  \/ ForEnd
  \/ Fetch
  \/ CatchUp
  \/ BadSample
  \/ Push
  \/ TripletOk
  \/ TripletFail
  \/ WriteRgb
  \/ WritePose
  \/ WriteDepth

Spec == Init /\ [][Next]_vars

-----------------------------------------------------------------------------
(* The pose algebra on its own: compose_pose and inverse_pose applied to  *)
(* poses of both shapes                                                    *)

Identity3 == << <<1, 0, 0>>, <<0, 1, 0>>, <<0, 0, 1>> >>

\* a quarter turn about z, a quarter turn about x
Rz90 == << <<0, -1, 0>>, <<1, 0, 0>>, <<0, 0, 1>> >>

Rx90 == << <<1, 0, 0>>, <<0, 0, -1>>, <<0, 1, 0>> >>

\* not a rotation: the identity scaled by two
Scaled == << <<2, 0, 0>>, <<0, 2, 0>>, <<0, 0, 2>> >>

Translations == {<<2, 0, 0>>, <<1, -1, 3>>}

\* the 3x4 and the 4x4 arrays [R|t]
Poses ==
  {Assemble(R, t, rows) :
     R \in {Identity3, Rz90, Rx90, Scaled}, t \in Translations, rows \in {3, 4}}

\* the rotation block is orthonormal
Orthonormal(g) == MatMul(Transpose(Rot(g)), Rot(g)) = Identity3

InitPose ==
  /\ \E g1 \in Poses, g2 \in Poses, g3 \in Poses :
       calc = [at |-> "inverse", g1 |-> g1, g2 |-> g2, g3 |-> g3,
               inv |-> <<>>, inv_inv |-> <<>>, g_inv |-> <<>>,
               left |-> <<>>, right |-> <<>>]
  /\ temporal_interval = 1
  /\ spatial_interval = 0
  /\ dataset = <<>>
  /\ color_messages = <<>>
  /\ depth_messages = <<>>
  /\ color_pos = 0
  /\ depth_pos = 0
  /\ i = 0
  /\ rgb_msg = 0
  /\ depth_msg = 0
  /\ circbuf = <<>>
  /\ count = 0
  /\ triplet = <<>>
  /\ K_file = <<>>
  /\ files = <<>>
  /\ pc = "off"
  /\ pushed = <<>>
  /\ log = <<>>

\* one call of the algebra: its result is kept in field f
Call(at, f, result, next) ==
  /\ calc.at = at
  /\ calc' = [calc EXCEPT ![f] = result, !.at = next]
  /\ UNCHANGED <<temporal_interval, spatial_interval, dataset, color_messages,
                 depth_messages, color_pos, depth_pos, i, rgb_msg, depth_msg,
                 circbuf, count, triplet, K_file, files, pc, pushed, log>>

\* inverse_pose(g1)
Inverse == Call("inverse", "inv", inverse_pose(calc.g1), "inverse_inverse")

\* inverse_pose(inverse_pose(g1))
InverseInverse ==
  Call("inverse_inverse", "inv_inv", inverse_pose(calc.inv), "compose_inverse")

\* compose_pose(g1, inverse_pose(g1))
ComposeInverse ==
  Call("compose_inverse", "g_inv", compose_pose(calc.g1, calc.inv), "compose_left")

\* compose_pose(compose_pose(g1, g2), g3)
ComposeLeft ==
  Call("compose_left", "left",
       compose_pose(compose_pose(calc.g1, calc.g2), calc.g3), "compose_right")

\* compose_pose(g1, compose_pose(g2, g3))
ComposeRight ==
  Call("compose_right", "right",
       compose_pose(calc.g1, compose_pose(calc.g2, calc.g3)), "done")

NextPose ==
  \/ Inverse
  \/ InverseInverse
  \/ ComposeInverse
  \/ ComposeLeft
  \/ ComposeRight

SpecPose == InitPose /\ [][NextPose]_vars

-----------------------------------------------------------------------------
(* What the histories say about the packets *)

IsAppend(e) == e.what = "append"

\* the numbers of the packets whose sample was appended, in order
Accepted == [k \in 1..Len(SelectSeq(log, IsAppend)) |-> SelectSeq(log, IsAppend)[k].i]

\* the whats of the steps taken on packet j
EventsOf(j) == {log[e].what : e \in {x \in 1..Len(log) : log[x].i = j}}

StopIterations == {"StopIteration color", "StopIteration depth"}

Skipped == "bad sample, skipping ..."

\* packet j has been dealt with
Settled(j) == j < i \/ (j = i /\ pc \in {"for", "done", "aborted"})

Abs(x) == IF x < 0 THEN 0 - x ELSE x

\* the color topic has items, and the timestamp of packet j is farther than
\* dt from the nearest of them
Far(j) ==
  /\ color_messages # <<>>
  /\ \A m \in 1..Len(color_messages) : Abs(color_messages[m] - dataset[j].ts) > dt

\* the timestamp of the color item the k-th appended sample was built from
ImageTime(k) == color_messages[pushed[k].rgb[1].seq]

-----------------------------------------------------------------------------
(* C1: every sample appended to the window was built from a color item    *)
(* whose timestamp t has now - dt <= t <= now + dt, now the timestamp of  *)
(* the packet being processed when the sample was appended.               *)
C1_SampleWithinTolerance ==
  /\ Len(pushed) = Len(Accepted)
  /\ \A k \in 1..Len(pushed) :
       /\ dataset[Accepted[k]].ts - dt <= ImageTime(k)
       /\ ImageTime(k) <= dataset[Accepted[k]].ts + dt

\* a run that appended a sample on each end of the tolerance window
C1_Witness ==
  /\ Len(pushed) = Len(Accepted)
  /\ \E k \in 1..Len(pushed) : ImageTime(k) = dataset[Accepted[k]].ts - dt
  /\ \E k \in 1..Len(pushed) : ImageTime(k) = dataset[Accepted[k]].ts + dt

(* C2, as claimed: a packet whose timestamp is farther than dt from every  *)
(* color item is skipped (no sample, window untouched) and the run goes   *)
(* on with the next packet; it does not abort.                            *)
C2_FarPacketSkippedNeverAborts ==
  \A j \in 1..i :
    Far(j) =>
      /\ EventsOf(j) \subseteq {"next", Skipped}
      /\ Settled(j) => Skipped \in EventsOf(j)

(* C2, amended: such a packet never yields a sample and never touches the *)
(* window; the run skips it and goes on with the next packet, or, when    *)
(* the color or the depth generator is exhausted while the items for      *)
(* this packet are fetched, the run aborts at this packet.                *)
C2_FarPacketSkippedOrAborts ==
  \A j \in 1..i :
    Far(j) =>
      /\ EventsOf(j) \subseteq {"next", Skipped} \cup StopIterations
      /\ Settled(j) =>
           \/ /\ Skipped \in EventsOf(j)
              /\ EventsOf(j) \cap StopIterations = {}
              /\ j = i => pc \in {"for", "done"}
           \/ /\ EventsOf(j) \cap StopIterations # {}
              /\ Skipped \notin EventsOf(j)
              /\ j = i
              /\ pc = "aborted"

\* a far packet was skipped and the next packet has been accepted
C2_Witness ==
  /\ i >= 2
  /\ Far(i - 1)
  /\ Skipped \in EventsOf(i - 1)
  /\ "append" \in EventsOf(i)

(* C3: the window has capacity C = 2 * temporal_interval + 1 and is FIFO:  *)
(* it holds the last min(C, n) of the n samples appended so far, in the   *)
(* order they were appended, which is the order of the accepted packets;  *)
(* its length never exceeds C, and once C it stays C.                     *)
C3_WindowHoldsLastPushed ==
  LET C == 2 * temporal_interval + 1
      n == Len(pushed)
  IN  /\ Len(circbuf) <= C
      /\ Len(circbuf) = IF n < C THEN n ELSE C
      /\ circbuf = SubSeq(pushed, n - Len(circbuf) + 1, n)
      /\ n = Len(Accepted)
      /\ \A k \in 1..n :
           /\ k > 1 => Accepted[k - 1] < Accepted[k]
           /\ pushed[k].gwc = list2pose(dataset[Accepted[k]].gwc)
           /\ pushed[k].Rg = list2R(dataset[Accepted[k]].wg)

C3_WindowStaysFull ==
  Len(circbuf) = 2 * temporal_interval + 1
    => Len(circbuf') = 2 * temporal_interval + 1

C3_WindowIsFifo == []C3_WindowHoldsLastPushed /\ [][C3_WindowStaysFull]_vars

\* two samples have left a window of capacity 5
C3_Witness ==
  /\ temporal_interval = 2
  /\ Len(pushed) = 7
  /\ Len(circbuf) = 5
  /\ circbuf[1] = pushed[3]

-----------------------------------------------------------------------------
(* The triplet attempts, and the parallax of a window computed from the   *)
(* packets of the dataset                                                 *)

Saving == "saving ..."

NotEnough == "Not enough parallel; skip"

IsAttempt(e) == e.what \in {Saving, NotEnough}

\* the attempts so far, in order
Attempts == SelectSeq(log, IsAttempt)

\* the packet of the a-th attempt's window at offset d (0 .. 2 * temporal_interval)
WindowPacket(a, d) == dataset[Accepted[a + d]]

PacketRot(p) == [r \in 1..3 |-> [c \in 1..3 |-> p.gwc[4 * (r - 1) + c]]]

PacketTrans(p) == [r \in 1..3 |-> p.gwc[4 * r]]

\* the translation of mid^-1 o other: R_mid^T (t_other - t_mid)
RelativeTranslation(mid, other) ==
  [c \in 1..3 |->
     PacketRot(mid)[1][c] * (PacketTrans(other)[1] - PacketTrans(mid)[1])
   + PacketRot(mid)[2][c] * (PacketTrans(other)[2] - PacketTrans(mid)[2])
   + PacketRot(mid)[3][c] * (PacketTrans(other)[3] - PacketTrans(mid)[3])]

\* the norm of the relative translation is strictly less than spatial_interval
Closer(mid, other) ==
  /\ spatial_interval > 0
  /\ SumSq(RelativeTranslation(mid, other)) < spatial_interval * spatial_interval

\* the a-th attempt's window lacks parallax
LacksParallax(a) ==
  \/ Closer(WindowPacket(a, temporal_interval), WindowPacket(a, 0))
  \/ Closer(WindowPacket(a, temporal_interval), WindowPacket(a, 2 * temporal_interval))

(* C4: a triplet is attempted only on a full window, once for each        *)
(* accepted packet from the (2 * temporal_interval + 1)-th on and for no  *)
(* other packet: max(0, n - 2 * temporal_interval) attempts for n         *)
(* accepted packets.                                                      *)
C4_OneAttemptPerAcceptedOnceFull ==
  LET n    == Len(Accepted)
      due  == IF pc = "triplet" THEN n - 1 ELSE n
      want == IF due > 2 * temporal_interval THEN due - 2 * temporal_interval ELSE 0
  IN  /\ Len(Attempts) = want
      /\ \A a \in 1..Len(Attempts) :
           Attempts[a].i = Accepted[2 * temporal_interval + a]
      /\ pc \in {"triplet", "imwrite", "dump", "save"}
           => Len(circbuf) = 2 * temporal_interval + 1

\* the run of 10 accepted packets with temporal_interval 2 has ended
C4_Witness ==
  /\ pc = "done"
  /\ temporal_interval = 2
  /\ Len(Accepted) = 10
  /\ Len(Attempts) = 6

(* C5: construct_triplet on a full window raises iff the translation of   *)
(* invert(pose[mid]) o pose[first] or of invert(pose[mid]) o pose[last]   *)
(* has a norm strictly less than spatial_interval; first, mid, last are   *)
(* the samples 0, temporal_interval, 2 * temporal_interval.               *)
C5_RaisesIffCloserThanSpatialInterval ==
  \A a \in 1..Len(Attempts) :
    (Attempts[a].what = NotEnough) <=> LacksParallax(a)

\* one attempt succeeded with a norm equal to spatial_interval, another
\* failed on the last frame alone
C5_Witness ==
  /\ spatial_interval > 0
  /\ \E a \in 1..Len(Attempts) :
       /\ Attempts[a].what = Saving
       /\ SumSq(RelativeTranslation(WindowPacket(a, temporal_interval), WindowPacket(a, 0)))
            = spatial_interval * spatial_interval
  /\ \E a \in 1..Len(Attempts) :
       /\ Attempts[a].what = NotEnough
       /\ ~Closer(WindowPacket(a, temporal_interval), WindowPacket(a, 0))

\* the steps that write an artifact
IsWrite(e) == e.what \in {"rgb", "pose", "depth"}

(* C6: artifacts are written only for a window whose parallax check       *)
(* passed: none of the three files for a window where construct_triplet   *)
(* raises, and the three writes come after the whole triplet is assembled *)
C6_WritesOnlyAfterValidTriplet ==
  /\ \A f \in 1..Len(files) :
       \E a \in 1..Len(Attempts) :
         /\ Attempts[a].i = files[f].i
         /\ Attempts[a].what = Saving
         /\ ~LacksParallax(a)
  /\ \A a \in 1..Len(Attempts) :
       LacksParallax(a) => \A f \in 1..Len(files) : files[f].i # Attempts[a].i
  /\ \A e \in 1..Len(log) :
       IsWrite(log[e]) =>
         \E d \in 1..(e - 1) : log[d] = [i |-> log[e].i, what |-> Saving]
  /\ pc \in {"imwrite", "dump", "save"} =>
       /\ DOMAIN triplet =
            {"ok", "rgb_concat", "gwc_concat", "Rg_concat", "dense_ref", "ref_paths"}
       /\ triplet = construct_triplet(circbuf, temporal_interval, spatial_interval)
       /\ Cardinality({f \in 1..Len(files) : files[f].i = i})
            = CASE pc = "imwrite" -> 0 [] pc = "dump" -> 1 [] pc = "save" -> 2

\* a window was rejected, a later one was written
C6_Witness ==
  /\ pc = "done"
  /\ \E a \in 1..Len(Attempts) :
       /\ LacksParallax(a)
       /\ \E f \in 1..Len(files) : files[f].i > Attempts[a].i

-----------------------------------------------------------------------------
\* the sample of the current window at offset d (0 .. 2 * temporal_interval),
\* taken from the history of the appended samples
WindowSample(d) == pushed[Len(pushed) - 2 * temporal_interval + d]

\* the packet that sample was built from
WindowSamplePacket(d) == dataset[Accepted[Len(pushed) - 2 * temporal_interval + d]]

(* C7: when construct_triplet succeeds, its result holds the images of    *)
(* the samples 0, temporal_interval, 2 * temporal_interval side by side   *)
(* in that order, their poses and their gravity rotations stacked in that *)
(* order, and the depth map and the paths of the middle sample alone.     *)
C7_TripletIsFirstMidLast ==
  pc \in {"imwrite", "dump", "save"} =>
    LET ti == temporal_interval
    IN  /\ triplet.rgb_concat
             = WindowSample(0).rgb \o WindowSample(ti).rgb \o WindowSample(2 * ti).rgb
        /\ Len(triplet.rgb_concat) = 3
        /\ triplet.rgb_concat[1].seq < triplet.rgb_concat[2].seq
        /\ triplet.rgb_concat[2].seq < triplet.rgb_concat[3].seq
        /\ triplet.gwc_concat
             = << list2pose(WindowSamplePacket(0).gwc),
                  list2pose(WindowSamplePacket(ti).gwc),
                  list2pose(WindowSamplePacket(2 * ti).gwc) >>
        /\ triplet.Rg_concat
             = << list2R(WindowSamplePacket(0).wg),
                  list2R(WindowSamplePacket(ti).wg),
                  list2R(WindowSamplePacket(2 * ti).wg) >>
        /\ triplet.dense_ref = WindowSample(ti).depth
        /\ \A d \in 0..(2 * ti) : triplet.dense_ref = WindowSample(d).depth => d = ti
        /\ triplet.ref_paths = WindowSample(ti).output_paths
        /\ triplet.ref_paths = OutputPaths(Format4(WindowSamplePacket(ti).ts))

\* a triplet of a window of 5 that has slid, its three poses all different
C7_Witness ==
  /\ pc = "imwrite"
  /\ temporal_interval = 2
  /\ Len(pushed) > 5
  /\ triplet.gwc_concat[1] # triplet.gwc_concat[2]
  /\ triplet.gwc_concat[2] # triplet.gwc_concat[3]
  /\ triplet.gwc_concat[1] # triplet.gwc_concat[3]

\* all the samples of the a-th attempt's window have the same pose
SamePoses(a) ==
  \A d \in 0..(2 * temporal_interval) : pushed[a + d].gwc = pushed[a].gwc

(* C8, as claimed: on a full window whose samples all have the same pose, *)
(* construct_triplet raises and nothing is written, whatever              *)
(* spatial_interval and temporal_interval are.                            *)
C8_SamePosesAlwaysRejected ==
  \A a \in 1..Len(Attempts) :
    SamePoses(a) =>
      /\ Attempts[a].what = NotEnough
      /\ \A f \in 1..Len(files) : files[f].i # Attempts[a].i

(* C8, amended: the same for every spatial_interval > 0.                  *)
C8_SamePosesRejectedWhenPositive ==
  spatial_interval > 0 => C8_SamePosesAlwaysRejected

\* a window of samples at the same pose away from the origin was rejected
C8_Witness ==
  /\ spatial_interval > 0
  /\ pc = "done"
  /\ \E a \in 1..Len(Attempts) :
       /\ SamePoses(a)
       /\ Trans(pushed[a].gwc) # <<0, 0, 0>>
       /\ Attempts[a].what = NotEnough

-----------------------------------------------------------------------------
\* the loop is about to ask the generators for the next items
NeedsItem ==
  \/ pc = "fetch"
  \/ pc = "while" /\ color_messages[rgb_msg] < now - dt

\* one of the generators has no item left
Exhausted ==
  \/ color_pos = Len(color_messages)
  \/ depth_pos = Len(depth_messages)

\* the exhaustion ends the run: it is the last step, taken on the packet in
\* flight, for which nothing was appended, attempted or written
C9_NothingAfterExhaustion ==
  /\ \A e \in 1..Len(log) :
       log[e].what \in StopIterations =>
         /\ e = Len(log)
         /\ pc = "aborted"
         /\ log[e].i = i
         /\ EventsOf(i) \subseteq {"next"} \cup StopIterations
         /\ \A f \in 1..Len(files) : files[f].i < i
         /\ Len(files) % 3 = 0
  /\ pc = "aborted" => Len(log) > 0 /\ log[Len(log)].what \in StopIterations

\* asking an exhausted generator aborts, and an aborted run takes no step
C9_ExhaustionAborts ==
  /\ NeedsItem /\ Exhausted =>
       /\ pc' = "aborted"
       /\ UNCHANGED <<i, circbuf, pushed, count, triplet, files, K_file>>
  /\ pc = "aborted" => UNCHANGED vars

(* C9: when the color or the depth stream is exhausted while a packet     *)
(* still needs an item, the run aborts: no later packet is processed, no  *)
(* sample is appended for the packet in flight, no triplet is attempted   *)
(* and no artifact is written after the exhaustion.                       *)
C9_ExhaustionIsTerminal == []C9_NothingAfterExhaustion /\ [][C9_ExhaustionAborts]_vars

\* the bag ran out in the catch-up loop, under a full window, with triplets
\* written before and packets still ahead
C9_Witness ==
  /\ pc = "aborted"
  /\ Len(log) > 1
  /\ log[Len(log) - 1] = [i |-> i, what |-> "next"]
  /\ Len(circbuf) = 2 * temporal_interval + 1
  /\ Len(files) >= 3
  /\ i < Len(dataset)

\* the place of packet j among the accepted packets (0: not accepted)
Rank(j) == Cardinality({k \in 1..Len(Accepted) : Accepted[k] <= j})

\* the packet accepted temporal_interval accepted packets before packet j
MiddleOf(j) == dataset[Accepted[Rank(j) - temporal_interval]]

(* C10: the rgb, pose and depth files of a triplet go to the three paths  *)
(* of one sample, the middle one of the window: the three paths share one *)
(* basename, that of the timestamp of the packet accepted                 *)
(* temporal_interval accepted packets before the one being processed.     *)
C10_FilesGoToPathsOfMiddleSample ==
  \A f \in 1..Len(files) :
    /\ files[f].path[1] = <<"rgb", "pose", "depth">>[((f - 1) % 3) + 1]
    /\ files[f].path[2] = Format4(MiddleOf(files[f].i).ts)
    /\ files[f].path = pushed[Rank(files[f].i) - temporal_interval].output_paths[files[f].path[1]]
    /\ (f - 1) % 3 # 0 =>
         /\ files[f].i = files[f - 1].i
         /\ files[f].path[2] = files[f - 1].path[2]

\* three files written under a basename that is not that of the packet
\* being processed
C10_Witness ==
  /\ pc = "for"
  /\ Len(files) >= 3
  /\ files[Len(files)].i = i
  /\ files[Len(files)].path[1] = "depth"
  /\ files[Len(files)].path[2] # Format4(now)
  /\ files[Len(files)].path[2] = files[Len(files) - 2].path[2]

-----------------------------------------------------------------------------
(* C11: the intrinsics matrix is saved exactly once in a run: nothing is  *)
(* saved, no packet processed and no artifact written before it, and from *)
(* then on the K file holds that one matrix, whatever the run goes on to  *)
(* do (skip packets, reject triplets, abort).                             *)
C11_IntrinsicsSavedOnceFirst ==
  /\ pc = "setup" => K_file = <<>> /\ i = 0 /\ files = <<>> /\ log = <<>>
  /\ pc # "setup" =>
       /\ K_file = <<K>>
       /\ log[1] = [i |-> 0, what |-> "saving camera intrinsics"]
       /\ \A e \in 2..Len(log) : log[e].i >= 1

\* an aborted run that skipped a packet or rejected a triplet, and wrote
\* the artifacts of another
C11_Witness ==
  /\ pc = "aborted"
  /\ K_file = <<K>>
  /\ \E e \in 1..Len(log) : log[e].what \in {Skipped, NotEnough}
  /\ files # <<>>

-----------------------------------------------------------------------------
(* C12: for every pose g with an orthonormal rotation block, 3x4 or 4x4,  *)
(* inverse_pose(inverse_pose(g)) is g, in the shape of g.                 *)
C12_InverseIsInvolution ==
  (calc.at \in {"compose_inverse", "compose_left", "compose_right", "done"}
     /\ Orthonormal(calc.g1)) =>
    /\ calc.inv_inv = calc.g1
    /\ Len(calc.inv_inv) = Len(calc.g1)

\* a 4x4 and a 3x4 pose with a quarter turn and a translation off its axis,
\* inverted twice
C12_Witness ==
  /\ calc.at = "compose_inverse"
  /\ Rot(calc.g1) \in {Rz90, Rx90}
  /\ Trans(calc.g1) = <<1, -1, 3>>
  /\ calc.inv # calc.g1
  /\ calc.inv_inv = calc.g1

(* C13: for every pose g with an orthonormal rotation block,              *)
(* compose_pose(g, inverse_pose(g)) is the identity transform (rotation   *)
(* block the 3x3 identity, translation zero) in the shape of g.           *)
C13_ComposeWithInverseIsIdentity ==
  (calc.at \in {"compose_left", "compose_right", "done"}
     /\ Orthonormal(calc.g1)) =>
    /\ Rot(calc.g_inv) = Identity3
    /\ Trans(calc.g_inv) = <<0, 0, 0>>
    /\ Len(calc.g_inv) = Len(calc.g1)
    /\ Len(calc.g_inv) = 4 => calc.g_inv[4] = <<0, 0, 0, 1>>

\* a 4x4 pose that is not the identity, composed with its inverse
C13_Witness ==
  /\ calc.at = "compose_left"
  /\ Len(calc.g1) = 4
  /\ Rot(calc.g1) = Rx90
  /\ Trans(calc.g1) = <<1, -1, 3>>
  /\ calc.g_inv = Assemble(Identity3, <<0, 0, 0>>, 4)

(* C14: for all poses g1, g2, g3, compose_pose(compose_pose(g1, g2), g3)  *)
(* equals compose_pose(g1, compose_pose(g2, g3)), and both have the shape *)
(* of g1.                                                                 *)
C14_ComposeIsAssociative ==
  calc.at = "done" =>
    /\ calc.left = calc.right
    /\ Len(calc.left) = Len(calc.g1)
    /\ Len(calc.right) = Len(calc.g1)

\* three poses of mixed shapes whose rotations do not commute
C14_Witness ==
  /\ calc.at = "done"
  /\ Len(calc.g1) = 4 /\ Len(calc.g2) = 3 /\ Len(calc.g3) = 4
  /\ Rot(calc.g1) = Rz90 /\ Rot(calc.g2) = Rx90 /\ Rot(calc.g3) = Scaled
  /\ MatMul(Rot(calc.g1), Rot(calc.g2)) # MatMul(Rot(calc.g2), Rot(calc.g1))
  /\ calc.left = calc.right

-----------------------------------------------------------------------------
\* the number of color items fetched while packet j was processed
FetchedFor(j) ==
  Cardinality({e \in 1..Len(log) :
                 log[e].i = j /\ log[e].what \in {"next", "StopIteration depth"}})

(* C15: while packet i is processed the cursors are advanced only past    *)
(* color items whose timestamp is earlier than now - dt: every item       *)
(* passed over since the packet was taken up, the item left current by    *)
(* the previous packet included, is earlier than now - dt.                *)
C15_AdvancesOnlyPastEarlierItems ==
  i >= 1 =>
    \A m \in (color_pos - FetchedFor(i))..(color_pos - 1) :
      m >= 1 => color_messages[m] < now - dt

-----------------------------------------------------------------------------
\* a color item lies within dt of the timestamp of packet j
HasImageWithin(j) ==
  \E m \in 1..Len(color_messages) : Abs(color_messages[m] - dataset[j].ts) <= dt

(* C19: with as many depth items as color items, every packet that has a  *)
(* color item within dt of its timestamp yields a sample: once the packet *)
(* has been dealt with its sample has been appended, it was not skipped   *)
(* and the run did not abort on it.                                       *)
C19_MatchingIsComplete ==
  Len(depth_messages) = Len(color_messages) =>
    \A j \in 1..i :
      (Settled(j) /\ HasImageWithin(j)) =>
        /\ "append" \in EventsOf(j)
        /\ Skipped \notin EventsOf(j)
        /\ EventsOf(j) \cap StopIterations = {}

-----------------------------------------------------------------------------
\* the step that gives an attempt up leaves the window, the files and the
\* cursors as they are
C16_RejectionKeepsWindow ==
  (pc = "triplet" /\ pc' = "for") =>
    /\ circbuf' = circbuf
    /\ pushed' = pushed
    /\ UNCHANGED <<files, count, i, color_pos, depth_pos, rgb_msg, depth_msg>>
    /\ log' = Append(log, [i |-> i, what |-> NotEnough])

\* the packet after a rejected attempt is dealt with as any other: items
\* are fetched for it, and when its sample is appended the next attempt is
\* made for it, on the window slid by one sample
C16_RunGoesOnAfterRejection ==
  /\ \A a \in 1..Len(Attempts) :
       LET j == Attempts[a].i + 1
       IN  (Attempts[a].what = NotEnough /\ j <= i /\ Settled(j)) =>
             /\ EventsOf(j) \cap ({"next"} \cup StopIterations) # {}
             /\ "append" \in EventsOf(j) =>
                  /\ Len(Attempts) > a
                  /\ Attempts[a + 1].i = j
  /\ (pc = "triplet" /\ Attempts # <<>>
        /\ Attempts[Len(Attempts)].what = NotEnough) =>
       LET n == Len(pushed)
           C == 2 * temporal_interval + 1
       IN  circbuf = Append(Tail(SubSeq(pushed, n - C, n - 1)), pushed[n])

(* C16: when the parallax check fails the window holds the same samples   *)
(* in the same order as before the attempt, and the next packet is        *)
(* processed as usual: synchronised, its sample appended if accepted, and *)
(* a new attempt made on the window slid by one.                          *)
C16_RejectionLeavesWindowAndRunGoesOn ==
  []C16_RunGoesOnAfterRejection /\ [][C16_RejectionKeepsWindow]_vars

\* an attempt was rejected and the attempt on the next packet succeeded
C16_Witness ==
  \E a \in 1..(Len(Attempts) - 1) :
    /\ Attempts[a].what = NotEnough
    /\ Attempts[a + 1].what = Saving
    /\ Attempts[a + 1].i = Attempts[a].i + 1
    /\ pc = "for"
    /\ Len(files) >= 3

-----------------------------------------------------------------------------
\* the steps taken on a packet up to the test of line 162 leave the window,
\* the counter and the files alone; the step that skips the packet changes
\* nothing but the position in the loop
C17_SkipChangesOnlyCursors ==
  /\ (pc = "fetch" \/ (pc = "while" /\ color_messages[rgb_msg] < now - dt)) =>
       /\ circbuf' = circbuf
       /\ UNCHANGED <<pushed, count, triplet, files, K_file, i>>
  /\ (pc = "while" /\ color_messages[rgb_msg] >= now - dt
        /\ color_messages[rgb_msg] > now + dt) =>
       /\ circbuf' = circbuf
       /\ UNCHANGED <<pushed, count, triplet, files, K_file, i,
                      color_pos, depth_pos, rgb_msg, depth_msg>>
       /\ pc' = "for"
       /\ log' = Append(log, [i |-> i, what |-> Skipped])

\* nothing but fetches of items was done for a skipped packet, and it was
\* skipped for an item later than now + dt
C17_SkippedPacketOnlyFetched ==
  \A j \in 1..i :
    Skipped \in EventsOf(j) =>
      /\ EventsOf(j) = {"next", Skipped}
      /\ j \notin {Accepted[k] : k \in 1..Len(Accepted)}
      /\ j \notin {Attempts[a].i : a \in 1..Len(Attempts)}
      /\ j \notin {files[f].i : f \in 1..Len(files)}
      /\ \E m \in 1..color_pos : color_messages[m] > dataset[j].ts + dt

(* C17: when a packet is skipped because the current color item is later  *)
(* than now + dt, the window is left as it was (nothing appended, nothing *)
(* dropped), no triplet is attempted and no file written; only the        *)
(* stream cursors have moved.                                             *)
C17_SkipLeavesWindowAlone ==
  []C17_SkippedPacketOnlyFetched /\ [][C17_SkipChangesOnlyCursors]_vars

\* a packet was skipped under a full window that had files written from it
C17_Witness ==
  /\ pc = "for"
  /\ log[Len(log)] = [i |-> i, what |-> Skipped]
  /\ Len(circbuf) = 2 * temporal_interval + 1
  /\ circbuf[Len(circbuf)] = pushed[Len(pushed)]
  /\ files # <<>>
  /\ color_pos > Len(pushed)

-----------------------------------------------------------------------------
(* What becomes of the packets from packet j on when pos items of each    *)
(* topic have been consumed, told from the color timestamps and from the  *)
(* number of depth items alone: the packet is given the first item after  *)
(* pos that is not earlier than now - dt; it is a sample when that item   *)
(* is not later than now + dt and skipped when it is; the run aborts when *)
(* a topic has no such item.                                              *)
RECURSIVE Outcomes(_, _)
Outcomes(j, pos) ==
  IF j > Len(dataset) THEN <<>>
  ELSE LET found == {m \in (pos + 1)..Len(color_messages) :
                       color_messages[m] >= dataset[j].ts - dt}
           m == CHOOSE x \in found : \A y \in found : x <= y
       IN  IF found = {} \/ m > Len(depth_messages)
           THEN << [what |-> "abort", item |-> 0] >>
           ELSE << [what |-> IF color_messages[m] > dataset[j].ts + dt
                             THEN "skip" ELSE "sample",
                    item |-> m] >> \o Outcomes(j + 1, m)

\* what became of packet j in the run
Outcome(j) ==
  IF "append" \in EventsOf(j) THEN "sample"
  ELSE IF Skipped \in EventsOf(j) THEN "skip"
  ELSE "abort"

\* the packets are accepted and skipped as the color timestamps alone tell,
\* and every sample pairs the k-th color item with the k-th depth item
C18_DepthTimestampsNeverRead ==
  /\ LET told == Outcomes(1, 0)
     IN  \A j \in 1..i :
           Settled(j) =>
             /\ j <= Len(told)
             /\ Outcome(j) = told[j].what
             /\ Outcome(j) = "sample" =>
                  pushed[Rank(j)].rgb[1].seq = told[j].item
  /\ \A k \in 1..Len(pushed) :
       pushed[k].depth.image[1].seq = pushed[k].rgb[1].seq

(* C18, as claimed: the color and the depth generator have always yielded *)
(* the same number of items, and the packets accepted and skipped and the *)
(* items paired in the samples do not depend on the depth timestamps.     *)
C18_CursorsAlwaysInStep ==
  /\ color_pos = depth_pos
  /\ C18_DepthTimestampsNeverRead

(* C18, amended: the two generators have yielded the same number of items *)
(* unless the run has aborted on the exhaustion of the depth topic, where *)
(* the color generator has yielded one item more; the packets accepted    *)
(* and skipped and the items paired in the samples do not depend on the   *)
(* depth timestamps.                                                      *)
C18_CursorsInStepUntilDepthEnds ==
  /\ IF \E e \in 1..Len(log) : log[e].what = "StopIteration depth"
     THEN pc = "aborted" /\ color_pos = depth_pos + 1
          /\ depth_pos = Len(depth_messages)
     ELSE color_pos = depth_pos /\ rgb_msg = depth_msg
  /\ C18_DepthTimestampsNeverRead

\* a run with depth items 4 dt later than the color items: a sample was
\* appended whose depth item is farther than dt from the packet, another
\* packet was skipped
C18_Witness ==
  /\ pc \in {"done", "aborted"}
  /\ \E k \in 1..Len(pushed) :
       Abs(depth_messages[pushed[k].depth.image[1].seq] - dataset[Accepted[k]].ts) > dt
  /\ \E j \in 1..i : Outcome(j) = "skip" /\ Settled(j)
  /\ \A m \in 1..Len(depth_messages) : depth_messages[m] = color_messages[m] + 4 * dt

-----------------------------------------------------------------------------
\* the attempts made so far, the one about to be made included
AttemptsMade == Len(Attempts) + (IF pc = "triplet" THEN 1 ELSE 0)

\* the accepted packets have pairwise distinct basenames
DistinctBasenames ==
  \A k, l \in 1..Len(Accepted) :
    k # l => Format4(dataset[Accepted[k]].ts) # Format4(dataset[Accepted[l]].ts)

(* C20: the middle frame of the a-th attempt is the (a + temporal_interval)-th *)
(* accepted sample, so a sample is the middle frame of at most one        *)
(* attempt and the first and the last temporal_interval accepted samples  *)
(* of none; when the accepted packets have pairwise distinct basenames no *)
(* path is written twice in a run.                                        *)
C20_MiddleOfAtMostOneAttempt ==
  LET ti == temporal_interval
  IN  /\ pc \in {"triplet", "imwrite", "dump", "save"} =>
           circbuf[ti + 1] = pushed[AttemptsMade + ti]
      /\ \A a \in 1..AttemptsMade :
           /\ ti < a + ti
           /\ a + ti <= Len(pushed) - ti
           /\ \A b \in 1..AttemptsMade : a # b => pushed[a + ti] # pushed[b + ti]
      /\ \A f \in 1..Len(files) :
           \E a \in 1..Len(Attempts) :
             /\ Attempts[a].i = files[f].i
             /\ files[f].path = pushed[a + ti].output_paths[files[f].path[1]]
      /\ DistinctBasenames =>
           \A f, g \in 1..Len(files) : f # g => files[f].path # files[g].path

\* the run of 10 packets with temporal_interval 2 has ended: six attempts,
\* eighteen files, the first two and the last two samples the middle of none
C20_Witness ==
  /\ pc = "done"
  /\ temporal_interval = 2
  /\ Len(pushed) = 10
  /\ Len(Attempts) = 6
  /\ Len(files) = 18
  /\ DistinctBasenames
  /\ {files[f].path[2] : f \in 1..Len(files)}
       = {Format4(dataset[Accepted[k]].ts) : k \in 3..8}

=============================================================================
